---- MODULE Spec2Model ----
(***************************************************************************)
(* Forward passes of the CTR models AFM (src/AFM/model.py) and DeepFM      *)
(* (src/DeepFM/model.py).                                                  *)
(*                                                                         *)
(* Numbers.  A float of the program is an exact rational [n |-> , d |-> ]  *)
(* in lowest terms with d > 0: rounding is not modelled.  exp is taken to  *)
(* base 2 and is linear between two integers, so that softmax and sigmoid  *)
(* stay rational; both keep the shape exp(z) / (... + exp(z)) of the       *)
(* functions they model.                                                   *)
(*                                                                         *)
(* Tensors.  A tensor is a sequence of sequences, outermost axis first, so *)
(* a shape is read off the value and never stored beside it.               *)
(***************************************************************************)
EXTENDS Integers, Sequences, FiniteSets, TLC

\* ------------------------------------------------------------------ bounds
\* most sparse fields of a model (at least 2: one pair of fields)
MaxFields == 3
\* most examples in a batch
MaxBatch == 2
\* seeds of the weight values a model is given
MaxSeed == 0
\* seeds of the input batches
MaxInSeed == 1
\* seeds of the dropout masks
MaxMaskSeed == 1
\* latent vectors a column of V is taken from, less one
MaxLatent == 2

\* --------------------------------------------------------------- rationals
Abs(i) == IF i < 0 THEN -i ELSE i

RECURSIVE Gcd(_, _)
Gcd(a, b) == IF b = 0 THEN a ELSE Gcd(b, a % b)

\* n / d in lowest terms, d > 0
Rat(n, d) ==
    LET s == IF d < 0 THEN -1 ELSE 1
        g == Gcd(Abs(n), Abs(d))
    IN  [n |-> (s * n) \div g, d |-> (s * d) \div g]

R(i) == [n |-> i, d |-> 1]
RAdd(a, b) == IF a.d = 1 /\ b.d = 1 THEN [n |-> a.n + b.n, d |-> 1]
              ELSE IF a.d = b.d THEN Rat(a.n + b.n, a.d)
              ELSE Rat(a.n * b.d + b.n * a.d, a.d * b.d)
RSub(a, b) == RAdd(a, [n |-> -b.n, d |-> b.d])
RMul(a, b) == IF a.d = 1 /\ b.d = 1 THEN [n |-> a.n * b.n, d |-> 1]
              ELSE Rat(a.n * b.n, a.d * b.d)
RLeq(a, b) == a.n * b.d <= b.n * a.d
RMax(a, b) == IF RLeq(a, b) THEN b ELSE a

RECURSIVE RSum(_)
RSum(s) == IF s = <<>> THEN R(0) ELSE RAdd(Head(s), RSum(Tail(s)))

RECURSIVE Pow2(_)
Pow2(i) == IF i <= 0 THEN 1 ELSE 2 * Pow2(i - 1)

\* 2^z for a rational z = i + r/d, 0 <= r < d: 2^i * (1 + r/d)
Exp2(z) ==
    LET i == z.n \div z.d
        r == z.n % z.d
    IN  IF i >= 0 THEN Rat(Pow2(i) * (z.d + r), z.d)
        ELSE Rat(z.d + r, z.d * Pow2(-i))

\* ----------------------------------------------------------------- tensors
Range(n) == 0 .. (n - 1)
\* A sequence, and a dictionary, given by their elements: the value is held
\* element by element, as the program holds an array, not as a rule that
\* is worked out again at each read.
Tensor(s) == s \o <<>>
Dict(f) == f @@ <<>>
\* tf.matmul of a (B, d) matrix and a (d, u) matrix
MatMul(x, w) ==
    Tensor([b \in 1 .. Len(x) |->
        Tensor([j \in 1 .. Len(w[1]) |->
            RSum(Tensor([i \in 1 .. Len(w) |-> RMul(x[b][i], w[i][j])]))])])
\* tf.transpose of a matrix
Transpose(w) == Tensor([j \in 1 .. Len(w[1]) |-> Tensor([i \in 1 .. Len(w) |-> w[i][j]])])
\* tf.pow(t, 2), elementwise, of a matrix
Square(t) == Tensor([i \in 1 .. Len(t) |-> Tensor([j \in 1 .. Len(t[i]) |-> RMul(t[i][j], t[i][j])])])

\* ------------------------------------------------------------------ layers
\* A layer object: its weights exist once it is built, at its first call.
Unbuilt == [built |-> FALSE, kernel |-> <<>>, bias |-> <<>>]

\* The value a weight is given: position (i, j) of the tensor numbered salt,
\* under one seed.  Values are -1, 0 and 1.
WeightValue(seed, salt, i, j) ==
    R((((31 * seed + 17 * salt + 7 * i + 13 * j + 5 * i * j * (seed + 1) + 3) % 11) % 3) - 1)

\* a (rows, cols) weight matrix
WeightMatrix(seed, salt, rows, cols) ==
    Tensor([i \in 1 .. rows |-> Tensor([j \in 1 .. cols |-> WeightValue(seed, salt, i, j)])])

\* the weights a Dense layer is built with: a kernel of shape (in_dim, units)
\* from its initializer and a bias of shape (units), zeros
LayerWeights(seed, salt, in_dim, units) ==
    [built |-> TRUE,
     kernel |-> WeightMatrix(seed, salt, in_dim, units),
     bias |-> Tensor([j \in 1 .. units |-> R(0)])]

\* (mutant) the layer is made anew, with fresh weights, at every call
BuildLayerAlways(layer, seed, salt, in_dim, units) == LayerWeights(seed, salt, in_dim, units)

\* Keras builds a layer at its first call, from the width of that input
BuildLayer(layer, seed, salt, in_dim, units) ==
    IF layer.built THEN layer ELSE LayerWeights(seed, salt, in_dim, units)

\* Embedding: row idx of the table for every example; indices are 0-based
Embedding(layer, column) == Tensor([b \in 1 .. Len(column) |-> layer.kernel[column[b] + 1]])

Relu(v) == RMax(v, R(0))
Linear(v) == v

\* the activation a Dense layer was constructed with; None is linear
Activation(act, v) == IF act = "relu" THEN Relu(v) ELSE Linear(v)

\* Dense on one vector: activation(v . kernel + bias)
DenseVec(layer, act, v) ==
    Tensor([j \in 1 .. Len(layer.bias) |->
        Activation(act, RAdd(RSum(Tensor([i \in 1 .. Len(v) |-> RMul(v[i], layer.kernel[i][j])])),
                             layer.bias[j]))])

\* Dense on a (B, d) matrix and on a (B, P, d) tensor: over the last axis
Dense2(layer, act, t) == Tensor([b \in 1 .. Len(t) |-> DenseVec(layer, act, t[b])])
Dense3(layer, act, t) == Tensor([b \in 1 .. Len(t) |-> Dense2(layer, act, t[b])])

\* tf.nn.sigmoid of one number, and of a (B, 1) matrix
Sigmoid(z) == LET e == Exp2(z) IN Rat(e.n, e.d + e.n)
Sigmoid2(t) == Tensor([b \in 1 .. Len(t) |-> Tensor([j \in 1 .. Len(t[b]) |-> Sigmoid(t[b][j])])])

\* tf.nn.softmax of a (B, P, 1) tensor along one axis (0: batch, 1: pairs)
Softmax(a, axis) ==
    LET e == Tensor([b \in 1 .. Len(a) |-> Tensor([p \in 1 .. Len(a[b]) |-> Exp2(a[b][p][1])])])
        total(b, p) == IF axis = 1
                       THEN RSum(Tensor([q \in 1 .. Len(a[b]) |-> e[b][q]]))
                       ELSE RSum(Tensor([c \in 1 .. Len(a) |-> e[c][p]]))
    IN  Tensor([b \in 1 .. Len(a) |->
            Tensor([p \in 1 .. Len(a[b]) |->
                <<RMul(e[b][p], [n |-> total(b, p).d, d |-> total(b, p).n])>>])])

\* tf.reduce_sum and tf.reduce_mean of a (B, P, k) tensor over axis 1
ReduceSum1(t) ==
    Tensor([b \in 1 .. Len(t) |->
        Tensor([j \in 1 .. Len(t[b][1]) |-> RSum(Tensor([p \in 1 .. Len(t[b]) |-> t[b][p][j]]))])])
ReduceMean1(t) ==
    Tensor([b \in 1 .. Len(t) |->
        Tensor([j \in 1 .. Len(t[b][1]) |->
            RMul(RSum(Tensor([p \in 1 .. Len(t[b]) |-> t[b][p][j]])), Rat(1, Len(t[b])))])])

\* tf.gather(t, idx, axis=1) of a (B, m, k) tensor.  An index past the axis
\* is an error on a CPU; on a GPU the op stores zeros there.
GatherInRange(t, idx) == \A p \in 1 .. Len(idx) : idx[p] < Len(t[1])
Gather1(t, idx) ==
    Tensor([b \in 1 .. Len(t) |->
        Tensor([p \in 1 .. Len(idx) |->
            IF idx[p] < Len(t[b]) THEN t[b][idx[p] + 1]
            ELSE Tensor([j \in 1 .. Len(t[b][1]) |-> R(0)])])])

\* --------------------------------------------------------------------- AFM
EmbedName(i) == "embed_" \o ToString(i)

\* (mutant) itertools.combinations_with_replacement(range(n), 2)
RECURSIVE CombinationsWithReplacementFrom(_, _, _)
CombinationsWithReplacementFrom(r, c, n) ==
    IF r >= n THEN <<>>
    ELSE IF c >= n THEN CombinationsWithReplacementFrom(r + 1, r + 1, n)
    ELSE <<<<r, c>>>> \o CombinationsWithReplacementFrom(r, c + 1, n)
CombinationsWithReplacement(n) == CombinationsWithReplacementFrom(0, 0, n)

\* itertools.combinations(range(n), 2): r ascending, then c ascending
RECURSIVE CombinationsFrom(_, _, _)
CombinationsFrom(r, c, n) ==
    IF r >= n - 1 THEN <<>>
    ELSE IF c >= n THEN CombinationsFrom(r + 1, r + 2, n)
    ELSE <<<<r, c>>>> \o CombinationsFrom(r, c + 1, n)
Combinations(n) == CombinationsFrom(0, 1, n)

\* AFM.__init__: the attributes the constructor sets.  sparse_feature_columns
\* holds n columns, each {feat_num, embed_dim}; the attention layers exist
\* only under mode 'att'.
AFMInit(n, nd, feat_num, embed_dim, mode, att_vector, dropout, seed) ==
    [kind |-> "AFM", n |-> n, nd |-> nd, feat_num |-> feat_num, embed_dim |-> embed_dim,
     mode |-> mode, att_vector |-> att_vector, dropout |-> dropout, seed |-> seed,
     embed_layers |-> Dict([name \in {EmbedName(i) : i \in Range(n)} |-> Unbuilt]),
     layers |-> Dict([name \in {"dense"} \cup
                          (IF mode = "att" THEN {"attention_W", "attention_dense"} ELSE {})
                 |-> Unbuilt])]


\* Keras builds an Embedding at its first call: a (feat_num, embed_dim) table
BuildEmbedding(layer, seed, salt, feat_num, embed_dim) ==
    IF layer.built THEN layer
    ELSE [built |-> TRUE, kernel |-> WeightMatrix(seed, salt, feat_num, embed_dim),
          bias |-> <<>>]

\* The record of one call: how it ended, the model object after it, and the
\* tensors it computed on the way (<<>> for those it never reached).
Raised(self, inputs, training, err) ==
    [status |-> "error", error |-> err, self |-> self, inputs |-> inputs,
     training |-> training, embed |-> <<>>, row |-> <<>>, col |-> <<>>,
     bi_interaction |-> <<>>, a_score |-> <<>>, x |-> <<>>, wide |-> <<>>,
     deep |-> <<>>, outputs |-> <<>>,
     before |-> self, again |-> FALSE, again_sparse |-> FALSE,
     prev_training |-> FALSE, prev_outputs |-> <<>>]

\* The embedding layers a call looks up: 'embed_0' .. 'embed_{m-1}' in order,
\* up to the first key the dictionary does not hold (a KeyError).
LookedUp(self, m) ==
    {i \in Range(m) : \A j \in 0 .. i : EmbedName(j) \in DOMAIN self.embed_layers}
LookupEmbeddings(self, m) ==
    [self EXCEPT !.embed_layers =
        Dict([name \in DOMAIN self.embed_layers |->
            IF \E i \in LookedUp(self, m) : name = EmbedName(i)
            THEN BuildEmbedding(self.embed_layers[name], self.seed,
                                CHOOSE i \in LookedUp(self, m) : name = EmbedName(i),
                                self.feat_num, self.embed_dim)
            ELSE self.embed_layers[name]])]
Column(sparse_inputs, i) == Tensor([b \in 1 .. Len(sparse_inputs) |-> sparse_inputs[b][i + 1]])

\* Dense checks the last axis of its input against the kernel it was built
\* with (a ValueError); an unbuilt layer takes any width
Accepts(layer, width) == ~layer.built \/ Len(layer.kernel) = width

\* (mutant) the softmax taken over axis 0, the batch
AttentionScoreOverBatch(a) == Softmax(a, 0)

\* the softmax of AFM.attention: over axis 1, the pairs
AttentionScore(a) == Softmax(a, 1)

\* (mutant) the weighted pairs summed over axis 2, the embedding
AttentionPoolOverEmbedding(bi_interaction, a_score) ==
    Tensor([b \in 1 .. Len(bi_interaction) |->
        Tensor([p \in 1 .. Len(bi_interaction[b]) |->
            RSum(Tensor([j \in 1 .. Len(bi_interaction[b][p]) |->
                    RMul(bi_interaction[b][p][j], a_score[b][p][1])]))])])

\* the pooling of AFM.attention: the sum over axis 1 of the weighted pairs
AttentionPool(bi_interaction, a_score) ==
    ReduceSum1(Tensor([b \in 1 .. Len(bi_interaction) |->
                  Tensor([p \in 1 .. Len(bi_interaction[b]) |->
                      Tensor([j \in 1 .. Len(bi_interaction[b][p]) |->
                          RMul(bi_interaction[b][p][j], a_score[b][p][1])])])]))

\* The steps of a call work on its record rec: each takes the record as the
\* step before left it and sets what it computes; once the call has raised
\* (rec.error is set) the steps that follow do nothing.

\* the two attention layers, built at their first call
AttentionBuilt(rec) ==
    [rec EXCEPT
        !.self.layers["attention_W"] =
            BuildLayer(@, rec.self.seed, 10, Len(rec.bi_interaction[1][1]), rec.self.att_vector),
        !.self.layers["attention_dense"] =
            BuildLayer(@, rec.self.seed, 12, rec.self.att_vector, 1)]

\* a = self.attention_W(bi_interaction); a = self.attention_dense(a)
AttentionLogits(self, bi_interaction) ==
    Dense3(self.layers["attention_dense"], "None",
           Dense3(self.layers["attention_W"], "relu", bi_interaction))

AttentionScored(rec) ==
    [rec EXCEPT !.a_score = AttentionScore(AttentionLogits(rec.self, rec.bi_interaction))]

AttentionOutputs(rec) ==
    [rec EXCEPT !.x = AttentionPool(rec.bi_interaction, rec.a_score)]

\* AFM.attention, on a model that has the attention layers
AFMAttention(rec) == AttentionOutputs(AttentionScored(AttentionBuilt(rec)))

\* (mutant) the Dense layer's output returned as it is
AFMOutputLogits(logits) == logits

\* the last operation of AFM.call, on the (B, 1) output of the Dense layer
AFMOutput(logits) == Sigmoid2(logits)

\* itertools.combinations(range(len(self.sparse_feature_columns)), 2)
AFMPairs(self) == Combinations(self.n)

\* dense_inputs, sparse_inputs = inputs, and the lookup of one embedding
\* layer per column of sparse_inputs
Lookup(self, inputs, training) ==
    [Raised(LookupEmbeddings(self, Len(inputs.sparse[1])), inputs, training, "") EXCEPT
        !.error = IF LookedUp(self, Len(inputs.sparse[1])) # Range(Len(inputs.sparse[1]))
                  THEN "KeyError" ELSE ""]

\* the embeddings of the columns: one (B, embed_dim) matrix per column
Embeddings(self, sparse_inputs) ==
    Tensor([i \in 1 .. Len(sparse_inputs[1]) |->
        Embedding(self.embed_layers[EmbedName(i - 1)], Column(sparse_inputs, i - 1))])

\* row and col: the first and the second field of every pair
Firsts(pairs) == Tensor([p \in 1 .. Len(pairs) |-> pairs[p][1]])
Seconds(pairs) == Tensor([p \in 1 .. Len(pairs) |-> pairs[p][2]])

\* embed of shape (B, m, embed_dim), row and col
AFMEmbed(rec) ==
    IF rec.error # "" THEN rec
    ELSE [rec EXCEPT !.embed = Transpose(Embeddings(rec.self, rec.inputs.sparse)),
                     !.row = Firsts(AFMPairs(rec.self)),
                     !.col = Seconds(AFMPairs(rec.self))]

\* bi_interaction = p * q, elementwise
BiInteraction(p, q) ==
    Tensor([b \in 1 .. Len(p) |->
        Tensor([i \in 1 .. Len(p[b]) |->
            Tensor([j \in 1 .. Len(p[b][i]) |-> RMul(p[b][i][j], q[b][i][j])])])])

\* p and q gathered from embed, and their product.  device is where
\* tf.gather runs.
AFMInteract(rec, device) ==
    IF rec.error # "" THEN rec
    ELSE IF device = "CPU" /\ ~(GatherInRange(rec.embed, rec.row)
                                /\ GatherInRange(rec.embed, rec.col))
    THEN [rec EXCEPT !.error = "InvalidArgumentError"]
    ELSE [rec EXCEPT !.bi_interaction =
              BiInteraction(Gather1(rec.embed, rec.row), Gather1(rec.embed, rec.col))]

\* the branch on self.mode: 'max', 'avg', and every other value
AFMPool(rec) ==
    IF rec.error # "" THEN rec
    ELSE IF rec.self.mode = "max" THEN [rec EXCEPT !.x = ReduceSum1(rec.bi_interaction)]
    ELSE IF rec.self.mode = "avg" THEN [rec EXCEPT !.x = ReduceMean1(rec.bi_interaction)]
    ELSE IF "attention_W" \notin DOMAIN rec.self.layers
    THEN [rec EXCEPT !.error = "AttributeError"]
    ELSE AFMAttention(rec)

\* self.dense, built at its first call
AFMDense(rec) ==
    IF rec.error # "" THEN rec
    ELSE IF ~Accepts(rec.self.layers["dense"], Len(rec.x[1]))
    THEN [rec EXCEPT !.error = "ValueError"]
    ELSE [rec EXCEPT !.self.layers["dense"] =
              BuildLayer(@, rec.self.seed, 14, Len(rec.x[1]), 1)]

\* outputs = tf.nn.sigmoid(self.dense(x)); return outputs
AFMReturn(rec) ==
    IF rec.error # "" THEN rec
    ELSE [rec EXCEPT !.status = "ok",
                     !.outputs = AFMOutput(Dense2(rec.self.layers["dense"], "None", rec.x))]

\* AFM.call.  device is where tf.gather runs.
AFMCall(self, inputs, training, device) ==
    AFMReturn(AFMDense(AFMPool(AFMInteract(AFMEmbed(Lookup(self, inputs, training)),
                                           device))))

\* ------------------------------------------------------------------ DeepFM
\* FM.build: w0 of shape (1,), zeros; w of shape (d, 1); V of shape (k, d),
\* d the last axis of the input the layer is first called with
FMBuild(fm, seed, input_dim) ==
    IF fm.built THEN fm
    ELSE [built |-> TRUE, k |-> fm.k,
          w0 |-> <<R(0)>>,
          w |-> WeightMatrix(seed, 20, input_dim, 1),
          V |-> WeightMatrix(seed, 22, fm.k, input_dim)]

\* (mutant) the second-order term without the squares of the single features
FMSecondOrderNoSquares(V, inputs) ==
    LET a == Square(MatMul(inputs, Transpose(V)))
    IN  Tensor([b \in 1 .. Len(inputs) |->
            <<RMul(Rat(1, 2), RSum(a[b]))>>])

\* the second-order term of FM.call, a (B, 1) matrix
FMSecondOrder(V, inputs) ==
    LET a == Square(MatMul(inputs, Transpose(V)))
        c == MatMul(Square(inputs), Square(Transpose(V)))
    IN  Tensor([b \in 1 .. Len(inputs) |->
            <<RMul(Rat(1, 2),
                   RSum(Tensor([f \in 1 .. Len(a[b]) |-> RSub(a[b][f], c[b][f])])))>>])

\* FM.call on a built layer
FMCall(fm, inputs) ==
    LET first_order == Tensor([b \in 1 .. Len(inputs) |->
                           <<RAdd(fm.w0[1], MatMul(inputs, fm.w)[b][1])>>])
        second_order == FMSecondOrder(fm.V, inputs)
    IN  Tensor([b \in 1 .. Len(inputs) |-> <<RAdd(first_order[b][1], second_order[b][1])>>])

\* Dropout(rate) on a (B, d) matrix: the identity unless the call is a
\* training call; there an element is kept where mask is 1, scaled by
\* 1 / (1 - rate), and zero elsewhere
Dropout(rate, t, training, mask) ==
    IF training /\ rate.n # 0
    THEN Tensor([b \in 1 .. Len(t) |->
            Tensor([j \in 1 .. Len(t[b]) |->
                IF mask[b][j] = 1
                THEN RMul(t[b][j], Rat(rate.d, rate.d - rate.n))
                ELSE R(0)])])
    ELSE t

\* the Dense layers of DNN.dnn_network, built by the first call: layer i
\* takes the width of layer i - 1, the first the width of the input
RECURSIVE DNNBuild(_, _, _, _)
DNNBuild(dnn_network, seed, input_dim, i) ==
    IF i > Len(dnn_network) THEN dnn_network
    ELSE DNNBuild([dnn_network EXCEPT ![i] =
                      BuildLayer(@, seed, 30 + 2 * i, input_dim, dnn_network[i].units)
                          @@ [units |-> dnn_network[i].units]],
                  seed, dnn_network[i].units, i + 1)

RECURSIVE DNNForward(_, _, _)
DNNForward(dnn_network, t, i) ==
    IF i > Len(dnn_network) THEN t
    ELSE DNNForward(dnn_network, Dense2(dnn_network[i], "relu", t), i + 1)

\* DNN.call on built layers
DNNCall(dnn, inputs, training, mask) ==
    Dropout(dnn.dropout, DNNForward(dnn.dnn_network, inputs, 1), training, mask)

\* DeepFM.__init__
DeepFMInit(n, nd, feat_num, embed_dim, k, hidden_units, dnn_dropout, seed) ==
    [kind |-> "DeepFM", n |-> n, nd |-> nd, feat_num |-> feat_num,
     embed_dim |-> embed_dim, seed |-> seed,
     embed_layers |-> Dict([name \in {EmbedName(i) : i \in Range(n)} |-> Unbuilt]),
     fm |-> [built |-> FALSE, k |-> k, w0 |-> <<>>, w |-> <<>>, V |-> <<>>],
     dnn |-> [dnn_network |-> Tensor([i \in 1 .. Len(hidden_units) |->
                                  Unbuilt @@ [units |-> hidden_units[i]]]),
              dropout |-> dnn_dropout],
     layers |-> Dict([name \in {"dense"} |-> Unbuilt])]

\* tf.concat([dense_inputs, sparse_embed], axis=-1), sparse_embed the
\* embeddings of the m columns side by side
ConcatRows(u, v) == Tensor([b \in 1 .. Len(u) |-> u[b] \o v[b]])
RECURSIVE ConcatAll(_, _)
ConcatAll(ts, i) == IF i = Len(ts) THEN ts[i] ELSE ConcatRows(ts[i], ConcatAll(ts, i + 1))

\* tf.add of a (B, a) and a (B, c) matrix, a = c or one of them 1: the
\* narrower one is broadcast along the last axis
Add2(u, v) ==
    Tensor([b \in 1 .. Len(u) |->
        Tensor([j \in 1 .. (IF Len(u[b]) >= Len(v[b]) THEN Len(u[b]) ELSE Len(v[b])) |->
            RAdd(u[b][IF Len(u[b]) = 1 THEN 1 ELSE j],
                 v[b][IF Len(v[b]) = 1 THEN 1 ELSE j])])])

\* (mutant) the DNN's output added as it is
DeepOutputsSkipped(dense, deep) == deep

\* deep_outputs = self.dense(deep_outputs): the DNN's output brought to
\* one unit
DeepOutputs(dense, deep) == Dense2(dense, "None", deep)

\* the last operation of DeepFM.call, on the wide and the deep outputs
DeepFMOutput(wide_outputs, deep_outputs) == Sigmoid2(Add2(wide_outputs, deep_outputs))

\* (mutant) the embeddings alone
DeepFMStackSparseOnly(dense_inputs, sparse_embed) == sparse_embed

\* what DeepFM.call stacks: the dense inputs, then the embeddings
DeepFMStack(dense_inputs, sparse_embed) == ConcatRows(dense_inputs, sparse_embed)

\* stack = tf.concat([dense_inputs, sparse_embed], axis=-1)
DeepFMStacked(rec) ==
    IF rec.error # "" THEN rec
    ELSE [rec EXCEPT !.x = DeepFMStack(rec.inputs.dense,
                                       ConcatAll(Embeddings(rec.self, rec.inputs.sparse), 1))]

\* wide_outputs = self.fm(stack): a built FM layer multiplies stack by its
\* w, of the width it was built with
DeepFMWide(rec) ==
    IF rec.error # "" THEN rec
    ELSE IF rec.self.fm.built /\ Len(rec.self.fm.w) # Len(rec.x[1])
    THEN [rec EXCEPT !.error = "InvalidArgumentError"]
    ELSE [rec EXCEPT
             !.self.fm = FMBuild(@, rec.self.seed, Len(rec.x[1])),
             !.wide = FMCall(FMBuild(rec.self.fm, rec.self.seed, Len(rec.x[1])), rec.x)]

\* the layers of self.dnn, built at their first call
DeepFMDNNBuilt(rec) ==
    IF rec.error # "" THEN rec
    ELSE [rec EXCEPT !.self.dnn.dnn_network = DNNBuild(@, rec.self.seed, Len(rec.x[1]), 1)]

\* deep_outputs = self.dnn(stack)
DeepFMDeep(rec, training, mask) ==
    IF rec.error # "" THEN rec
    ELSE [rec EXCEPT !.deep = DNNCall(rec.self.dnn, rec.x, training, mask)]

\* deep_outputs = self.dense(deep_outputs)
DeepFMDense(rec) ==
    IF rec.error # "" THEN rec
    ELSE [rec EXCEPT
             !.self.layers["dense"] = BuildLayer(@, rec.self.seed, 14, Len(rec.deep[1]), 1),
             !.deep = DeepOutputs(BuildLayer(rec.self.layers["dense"], rec.self.seed, 14,
                                             Len(rec.deep[1]), 1),
                                  rec.deep)]

\* outputs = tf.nn.sigmoid(tf.add(wide_outputs, deep_outputs)); return outputs
DeepFMReturn(rec) ==
    IF rec.error # "" THEN rec
    ELSE [rec EXCEPT !.status = "ok", !.outputs = DeepFMOutput(rec.wide, rec.deep)]

\* DeepFM.call.  mask is the dropout mask a training call draws.
DeepFMCall(self, inputs, training, mask) ==
    DeepFMReturn(DeepFMDense(DeepFMDeep(
        DeepFMDNNBuilt(DeepFMWide(DeepFMStacked(Lookup(self, inputs, training)))),
        training, mask)))

FeatNum == 2
EmbedDim == 2
AttVector == 2
NumDense == 1
LatentK == 2
\* 'max', 'avg' and 'att' are the modes the constructor documents; it takes
\* any string, and 'sum' is one more
Modes == {"max", "avg", "att", "sum"}
HiddenUnits == {<<>>, <<2, 1>>}
DropoutRates == {R(0), Rat(1, 2)}
Devices == {"CPU", "GPU"}

\* An input pair: B rows, nd dense columns, m sparse columns of indices
\* below feat_num.
SparseValue(seed, b, i) == ((7 * seed + 3 * b + 5 * i + b * i) % 5) % FeatNum
DenseValue(seed, b, j) == R(((5 * seed + 2 * b + 3 * j) % 3) - 1)
InputBatch(B, m, nd, sseed, dseed) ==
    [dense |-> Tensor([b \in 1 .. B |-> Tensor([j \in 1 .. nd |-> DenseValue(dseed, b, j)])]),
     sparse |-> Tensor([b \in 1 .. B |-> Tensor([i \in 1 .. m |-> SparseValue(sseed, b, i)])])]
\* the batches a model of n sparse fields is called with: batches of n
\* sparse columns, and batches of one column fewer and of one more
WellFormed(n) ==
    {InputBatch(B, n, NumDense, seeds[1], seeds[2]) :
        B \in 1 .. MaxBatch,
        seeds \in {s \in (0 .. MaxInSeed) \X (0 .. MaxInSeed) : s[1] <= s[2]}}
Malformed(n) == {InputBatch(1, m, NumDense, 0, 0) : m \in {n - 1, n + 1}}
Batches(n) == WellFormed(n) \cup Malformed(n)
\* the batches of a training set: MaxBatch rows of n sparse columns
TrainingBatches(n) ==
    {InputBatch(MaxBatch, n, NumDense, iseed, iseed) : iseed \in 0 .. MaxInSeed}
\* a dropout mask, wide enough for every tensor Dropout is applied to
DropoutMask(mseed) ==
    Tensor([b \in 1 .. MaxBatch |->
        Tensor([j \in 1 .. (NumDense + (MaxFields + 2) * EmbedDim) |-> (mseed + b + j) % 2])])

VARIABLES
    model,      \* the model object: its attributes and its layers' weights
    device,     \* where the ops of this process run
    cur,        \* the record of the latest call
    fm_inputs,  \* FM layer alone: one input row
    fm_V,       \* FM layer alone: the latent matrix V, of shape (k, n)
    fm_out      \* FM layer alone: the second-order term of the latest call
vars == <<model, device, cur, fm_inputs, fm_V, fm_out>>

Models ==
    {AFMInit(n, NumDense, FeatNum, EmbedDim, mode, AttVector, Rat(1, 2), seed) :
        n \in 2 .. MaxFields, mode \in Modes, seed \in 0 .. MaxSeed}
    \cup
    {DeepFMInit(n, NumDense, FeatNum, EmbedDim, LatentK, h, rate, seed) :
        n \in 2 .. MaxFields, h \in HiddenUnits, rate \in DropoutRates,
        seed \in 0 .. MaxSeed}

NoCall(self) ==
    [Raised(self, [dense |-> <<>>, sparse |-> <<>>], FALSE, "") EXCEPT !.status = "none"]

Init ==
    /\ model \in Models
    /\ device \in (IF model.kind = "AFM" THEN Devices ELSE {"CPU"})
    /\ cur = NoCall(model)
    /\ fm_inputs = <<>>
    /\ fm_V = <<>>
    /\ fm_out = <<>>

\* model(inputs): AFM.call or DeepFM.call, by the class of the object
Forward(self, inputs, training, mask) ==
    IF self.kind = "AFM" THEN AFMCall(self, inputs, training, device)
    ELSE DeepFMCall(self, inputs, training, mask)

\* The record of a call, with what it shares with the call before it:
\* again when that call returned, used the same weights and had the same
\* inputs; again_sparse when at least the sparse inputs were the same.
Recorded(rec, self) ==
    LET same_weights == cur.status = "ok" /\ rec.status = "ok" /\ cur.self = rec.self
    IN  [rec EXCEPT
            !.before = self,
            !.again = same_weights /\ cur.inputs = rec.inputs,
            !.again_sparse = same_weights /\ cur.inputs.sparse = rec.inputs.sparse,
            !.prev_training = cur.training,
            !.prev_outputs = IF same_weights /\ cur.inputs.sparse = rec.inputs.sparse
                             THEN cur.outputs ELSE <<>>]

\* what a call leaves: the model object with the layers it built, and its
\* record
Returned(rec) ==
    /\ model' = rec.self
    /\ cur' = Recorded(rec, model)
    /\ UNCHANGED <<device, fm_inputs, fm_V, fm_out>>

\* a forward pass outside training: model(inputs), predict, evaluate
Call(inputs) == Returned(Forward(model, inputs, FALSE, DropoutMask(0)))

\* the weights of every built layer, as training leaves them
RefillLayer(layer, seed, salt) ==
    IF ~layer.built THEN layer
    ELSE [layer EXCEPT
            !.kernel = WeightMatrix(seed, salt, Len(@), Len(@[1])),
            !.bias = IF @ = <<>> THEN <<>> ELSE WeightMatrix(seed, salt + 1, 1, Len(@))[1]]
LayerSalt(name) ==
    CASE name = "attention_W" -> 10
      [] name = "attention_dense" -> 12
      [] OTHER -> 14
Refill(self, seed) ==
    LET common ==
            [self EXCEPT
                !.embed_layers =
                    Dict([name \in DOMAIN @ |->
                        RefillLayer(@[name], seed,
                                    CHOOSE i \in Range(self.n) : name = EmbedName(i))]),
                !.layers = Dict([name \in DOMAIN @ |-> RefillLayer(@[name], seed, LayerSalt(name))])]
    IN  IF self.kind = "AFM" THEN common
        ELSE [common EXCEPT
                !.fm = IF ~@.built THEN @
                       ELSE [@ EXCEPT !.w0 = WeightMatrix(seed, 24, 1, 1)[1],
                                      !.w = WeightMatrix(seed, 20, Len(@), 1),
                                      !.V = WeightMatrix(seed, 22, Len(@), Len(@[1]))],
                !.dnn.dnn_network =
                    Tensor([i \in 1 .. Len(@) |-> RefillLayer(@[i], seed, 30 + 2 * i)])]

\* what a training step leaves: the weights updated, when the forward pass
\* returned
Trained(rec, wseed) ==
    /\ model' = IF rec.status = "ok" THEN Refill(rec.self, wseed + 1) ELSE rec.self
    /\ cur' = Recorded(rec, model)
    /\ UNCHANGED <<device, fm_inputs, fm_V, fm_out>>

\* model.fit on one batch: a forward pass in training mode, then the
\* optimizer's update of the weights
Fit(inputs, mseed, wseed) == Trained(Forward(model, inputs, TRUE, DropoutMask(mseed)), wseed)

\* summary(): call on symbolic inputs of the shapes the feature columns
\* give, which builds the layers the call reaches; no value is returned
Summary ==
    /\ model' = Forward(model, InputBatch(1, model.n, NumDense, 0, 0), FALSE, DropoutMask(0)).self
    /\ UNCHANGED <<device, cur, fm_inputs, fm_V, fm_out>>

Next ==
    \/ \E inputs \in Batches(model.n) : Call(inputs)
    \/ \E inputs \in TrainingBatches(model.n), mseed \in 0 .. MaxMaskSeed,
          wseed \in 0 .. MaxSeed :
          Fit(inputs, mseed, wseed)
    \/ Summary

Spec == Init /\ [][Next]_vars
\* ------------------------------------------------------- the FM layer alone
\* Values of the entries of an input row, and the latent vectors the columns
\* of V are taken from: entry f of vector c.
FMInputValues == -1 .. 1
LatentValue(c, f) == ((c * c + 3 * f + 2 * c * f + c) % 5) - 2
ToR(v) == Tensor([i \in 1 .. Len(v) |-> R(v[i])])
ToR2(t) == Tensor([i \in 1 .. Len(t) |-> ToR(t[i])])
\* row x turned left by r places
Rotate(v, r) == Tensor([i \in 1 .. Len(v) |-> v[((i - 1 + r) % Len(v)) + 1]])

InitFM ==
    /\ model = <<>>
    /\ device = "CPU"
    /\ cur = <<>>
    /\ \E n \in 1 .. MaxFields :
          /\ fm_inputs \in [1 .. n -> FMInputValues]
          /\ \E c \in [1 .. n -> 0 .. MaxLatent] :
                fm_V = [f \in 1 .. LatentK |-> [i \in 1 .. n |-> LatentValue(c[i], f)]]
    /\ fm_out = <<>>

\* FM.call on a batch of B rows: the row fm_inputs and its rotations
FMLayerCall(B) ==
    LET inputs == Tensor([b \in 1 .. B |-> ToR(Rotate(fm_inputs, b - 1))])
    IN  /\ fm_out' = [inputs |-> inputs, second_order |-> FMSecondOrder(ToR2(fm_V), inputs)]
        /\ UNCHANGED <<model, device, cur, fm_inputs, fm_V>>

NextFM == \E B \in 1 .. MaxBatch : FMLayerCall(B)

SpecFM == InitFM /\ [][NextFM]_vars

\* ------------------------------------------------------------------ claims
InUnitInterval(v) == RLeq(R(0), v) /\ RLeq(v, R(1))
Columns(inputs) == Len(inputs.sparse[1])
BatchSize(inputs) == Len(inputs.sparse)
IsShape(t, rows, cols) == Len(t) = rows /\ \A b \in 1 .. Len(t) : Len(t[b]) = cols

\* C1: every element of the value AFM.call or DeepFM.call returns lies in
\* the closed interval [0, 1].
C1_OutputInUnitInterval ==
    cur.status = "ok" =>
        \A b \in 1 .. Len(cur.outputs) : \A j \in 1 .. Len(cur.outputs[b]) :
            InUnitInterval(cur.outputs[b][j])
\* an AFM call has returned, with an output other than sigmoid(0)
C1_Witness ==
    /\ cur.status = "ok"
    /\ model.kind = "AFM"
    /\ \E b \in 1 .. Len(cur.outputs) : cur.outputs[b][1] # Rat(1, 2)

\* C2: for every row x and every V, the second-order term of FM.call is the
\* sum over the pairs i < j of <V[:,i], V[:,j]> x_i x_j, one scalar per row.
PairTerm(V, x, i, j) ==
    RMul(RSum(Tensor([f \in 1 .. Len(V) |-> RMul(V[f][i], V[f][j])])), RMul(x[i], x[j]))
PairwiseSum(V, x) ==
    RSum(Tensor([i \in 1 .. Len(x) |->
            RSum(Tensor([j \in 1 .. Len(x) |->
                    IF i < j THEN PairTerm(V, x, i, j) ELSE R(0)]))]))
C2_SecondOrderIsPairwiseSum ==
    fm_out # <<>> =>
        /\ IsShape(fm_out.second_order, Len(fm_out.inputs), 1)
        /\ \A b \in 1 .. Len(fm_out.inputs) :
              fm_out.second_order[b][1] = PairwiseSum(ToR2(fm_V), fm_out.inputs[b])
\* a call on two rows of three features whose second-order term is not zero
C2_Witness ==
    /\ fm_out # <<>>
    /\ Len(fm_out.inputs) = 2
    /\ Len(fm_inputs) = 3
    /\ fm_out.second_order[1][1].n < 0
    /\ fm_out.second_order[2][1].n > 0

\* C3: under each pooling mode the tensor x handed to the output layer of
\* AFM.call has the shape (batch_size, embed_dim).
C3_PooledShape ==
    (cur # <<>> /\ cur.x # <<>> /\ model.kind = "AFM") =>
        IsShape(cur.x, BatchSize(cur.inputs), model.embed_dim)
\* the attention pooling has produced x for a batch of two examples
C3_Witness ==
    /\ cur.status = "ok"
    /\ model.kind = "AFM"
    /\ model.mode = "att"
    /\ model.n = 3
    /\ BatchSize(cur.inputs) = 2

\* C4: for every example the attention scores are non-negative and sum to
\* 1 over the pairs, and the pooled output is that combination of the
\* example's pairwise interaction vectors.
C4_AttentionIsConvex ==
    (cur.status = "ok" /\ cur.a_score # <<>>) =>
        \A b \in 1 .. Len(cur.a_score) :
            /\ \A p \in 1 .. Len(cur.a_score[b]) : RLeq(R(0), cur.a_score[b][p][1])
            /\ RSum(Tensor([p \in 1 .. Len(cur.a_score[b]) |-> cur.a_score[b][p][1]])) = R(1)
            /\ \A j \in 1 .. Len(cur.x[b]) :
                  cur.x[b][j] =
                      RSum(Tensor([p \in 1 .. Len(cur.a_score[b]) |->
                              RMul(cur.a_score[b][p][1], cur.bi_interaction[b][p][j])]))
\* attention over three pairs, with scores that differ, for two examples
C4_Witness ==
    /\ cur.status = "ok"
    /\ cur.a_score # <<>>
    /\ Len(cur.a_score) = 2
    /\ Len(cur.a_score[1]) = 3
    /\ cur.a_score[1][1] # cur.a_score[1][2]
    /\ cur.x[1] # cur.x[2]

\* C5: a call whose sparse_inputs has another number of columns than the
\* model has sparse feature columns ends in an error and returns nothing.
C5_MismatchRaises ==
    (cur.status # "none" /\ Columns(cur.inputs) # model.n) =>
        (cur.status = "error" /\ cur.outputs = <<>>)

\* C6: two invocations with the same weights and the same inputs return
\* the same outputs, and a call leaves the model object as it was.
C6_CallIsPure ==
    cur.status = "ok" =>
        /\ cur.self = cur.before
        /\ cur.again => cur.outputs = cur.prev_outputs
\* Every layer of the model has its weights.
Built(self) ==
    /\ \A name \in DOMAIN self.embed_layers : self.embed_layers[name].built
    /\ \A name \in DOMAIN self.layers : self.layers[name].built
    /\ self.kind = "DeepFM" =>
          /\ self.fm.built
          /\ \A i \in 1 .. Len(self.dnn.dnn_network) : self.dnn.dnn_network[i].built
\* Dropout acts in a call: a training call of a DeepFM model with a rate
\* above zero.
DropoutActs(self, training) ==
    self.kind = "DeepFM" /\ training /\ self.dnn.dropout.n # 0
\* C6, amended: a call on a model whose layers are all built leaves the
\* model object as it was; two invocations with the same weights and the
\* same inputs, in neither of which Dropout acts, return the same outputs.
C6_BuiltCallIsPure ==
    cur.status = "ok" =>
        /\ Built(cur.before) => cur.self = cur.before
        /\ (/\ cur.again
            /\ ~DropoutActs(cur.self, cur.training)
            /\ ~DropoutActs(cur.self, cur.prev_training)) => cur.outputs = cur.prev_outputs
\* the same call made twice on a built model whose weights training has set
C6_Witness ==
    /\ cur.status = "ok"
    /\ cur.again
    /\ Built(cur.before)
    /\ ~cur.training /\ ~cur.prev_training
    /\ cur.self.layers["dense"].bias # <<R(0)>>

\* C7: for a batch of B examples the calls return a (B, 1) matrix, and in
\* DeepFM the wide and the deep outputs are (B, 1) before they are added.
C7_OutputIsColumn ==
    cur.status = "ok" =>
        /\ IsShape(cur.outputs, BatchSize(cur.inputs), 1)
        /\ model.kind = "DeepFM" =>
              /\ IsShape(cur.wide, BatchSize(cur.inputs), 1)
              /\ IsShape(cur.deep, BatchSize(cur.inputs), 1)
\* a DeepFM model with no hidden layer has returned for two examples
C7_Witness ==
    /\ cur.status = "ok"
    /\ model.kind = "DeepFM"
    /\ model.dnn.dnn_network = <<>>
    /\ BatchSize(cur.inputs) = 2

C9_AttentionLayersExist ==
    (cur # <<>> /\ model.kind = "AFM" /\ cur.bi_interaction # <<>>
        /\ model.mode \notin {"max", "avg"}) =>
        {"attention_W", "attention_dense"} \subseteq DOMAIN model.layers

\* C10: with the same weights and the same sparse inputs, AFM.call returns
\* the same outputs whatever the dense inputs are; DeepFM.call does not:
\* some weights and some two batches that differ only in the dense inputs
\* give it different outputs.
OutputsDiffer(self, sseed) ==
    Forward(self, InputBatch(MaxBatch, self.n, NumDense, sseed, 0), FALSE, DropoutMask(0)).outputs
        # Forward(self, InputBatch(MaxBatch, self.n, NumDense, sseed, 1), FALSE,
                  DropoutMask(0)).outputs
DependsOnDense(self) ==
    \E wseed \in 0 .. MaxSeed, sseed \in 0 .. MaxInSeed :
        OutputsDiffer(Refill(Forward(self, InputBatch(1, self.n, NumDense, 0, 0),
                                     FALSE, DropoutMask(0)).self, wseed),
                      sseed)
C10_DenseInputs ==
    /\ (cur.status = "ok" /\ model.kind = "AFM" /\ cur.again_sparse) =>
          cur.outputs = cur.prev_outputs
    /\ (cur.status = "none" /\ model.kind = "DeepFM") => DependsOnDense(model)
\* two AFM calls in a row that differ in the dense inputs alone
C10_Witness ==
    /\ cur.status = "ok"
    /\ model.kind = "AFM"
    /\ cur.again_sparse
    /\ ~cur.again
====
